---- MODULE Spec2Model ----
(***************************************************************************)
(* Command dispatch of the neo bot: the admission pipeline of NeoBot       *)
(* (global cooldown, blacklist, per-command checks, argument binding,      *)
(* before-invoke hook, handler body), the re-dispatching Dev commands, and *)
(* the Loading block of neo.context.                                       *)
(*                                                                         *)
(* Time is counted in ticks of half a time-unit, so the cooldown window of *)
(* 2.5 time-units is 5 ticks.                                              *)
(***************************************************************************)
EXTENDS Integers, Sequences, FiniteSets, TLC

VARIABLES now, cd, user_cache, db, inv, consults, ld, calls, events,
          default_reddit, cached_reddit, pr, payloads, esc, reactions,
          closed, guild_cache, message, prefix, rctx, menu, dl, ss, rd

\* The dispatcher's state, and the state of one handler with a Loading block.
dvars == <<now, cd, user_cache, db, inv, consults>>
lvars == <<ld, calls, events>>

\* The default_reddit column of user_data, in storage and in user_cache.
svars == <<default_reddit, cached_reddit>>

\* One Context.prompt call and the raw_reaction_add payloads delivered.
pvars == <<pr, payloads>>

\* The Context.propagate_error calls and the reaction_add events delivered.
evars == <<esc, reactions>>

\* The bot's closed flag and guild cache, one incoming message, and the
\* results of get_prefix and of get_context for it.
mvars == <<closed, guild_cache, message, prefix, rctx>>

\* One pagination session started by quick_menu, one `dev delete` call,
\* one safe_send call and one rand command.
uvars == <<menu, dl, ss, rd>>

xvars == <<svars, pvars, evars, mvars, uvars>>

vars == <<now, cd, user_cache, db, inv, consults, ld, calls, events,
          default_reddit, cached_reddit, pr, payloads, esc, reactions,
          closed, guild_cache, message, prefix, rctx, menu, dl, ss, rd>>

(***************************************************************************)
(* Bounds of the model.                                                    *)
(***************************************************************************)
MaxInv == 2
MaxAttempts == 3
MaxTicks == 7
MaxDepth == 1

(***************************************************************************)
(* Program constants: CooldownMapping.from_cooldown(2.0, 2.5, user).       *)
(***************************************************************************)
Rate == 2
Per == 5

Users == {"owner", "ann"}
owner_ids == {"owner"}
NoUser == "none"

LeafCmds == {"covid", "bypass"}
DevCmds == {"sudo", "sudo_in", "debug"}
\* Dev commands that do not re-dispatch, and Dev commands that reinvoke a
\* fixed command (dev journalctl reinvokes shell).
DevLeafCmds == {"shell"}
DevReinvokeCmds == {"dev_journalctl"}
\* The Dev command that asks for confirmation.
DevPromptCmds == {"reboot"}
Word == [c : LeafCmds, t : {NoUser}]
          \cup [c : {"sudo"}, t : Users \cup {NoUser}]
          \cup [c : {"sudo_in", "debug"}, t : {NoUser}]

IsLeaf(w) == w.c \in LeafCmds \cup DevLeafCmds

RECURSIVE LinesOfLen(_)
LinesOfLen(n) ==
    IF n = 1 THEN {<<w>> : w \in {x \in Word : IsLeaf(x)}}
    ELSE {<<w>> \o l : w \in {x \in Word : ~IsLeaf(x)}, l \in LinesOfLen(n - 1)}

Lines == UNION {LinesOfLen(n) : n \in 1..(MaxDepth + 1)}

(***************************************************************************)
(* discord.ext.commands.Cooldown, as used by NeoBot.global_cooldown.       *)
(***************************************************************************)
FreshBucket == [window |-> 0, tokens |-> Rate, last |-> 0]

get_tokens(b, current) ==
    IF current > b.window + Per THEN Rate ELSE b.tokens

\* Mutant: the decremented token count is not stored.
update_rate_limit_keep(b, current) ==
    LET t == get_tokens(b, current)
        w == IF t = Rate THEN current ELSE b.window
    IN  IF t = 0
        THEN [bucket |-> [window |-> w, tokens |-> 0, last |-> current],
              retry |-> {Per - (current - w)}]
        ELSE [bucket |-> [window |-> w, tokens |-> t, last |-> current],
              retry |-> {}]

\* Returns the bucket after the call and retry_after: {} is None, {r} is r.
update_rate_limit(b, current) ==
    LET t == get_tokens(b, current)
        w == IF t = Rate THEN current ELSE b.window
    IN  IF t = 0
        THEN [bucket |-> [window |-> w, tokens |-> 0, last |-> current],
              retry |-> {Per - (current - w)}]
        ELSE [bucket |-> [window |-> IF t - 1 = 0 THEN current ELSE w,
                          tokens |-> t - 1, last |-> current],
              retry |-> {}]

\* CooldownMapping.get_bucket: drop the buckets unused for a whole window,
\* then find or create the bucket of the key.
get_bucket(cache, key, current) ==
    LET live == {k \in DOMAIN cache : ~(current > cache[k].last + Per)}
        keys == live \cup {key}
    IN  [k \in keys |-> IF k \in live THEN cache[k] ELSE FreshBucket]

\* `if retry_after:` -- None and 0.0 are both falsy.
Truthy(ra) == ra # {} /\ ra # {0}

(***************************************************************************)
(* The order of the stages of one invocation.  Bot.invoke runs the         *)
(* call_once checks (global_cooldown), then Command.prepare runs the       *)
(* global checks (check_blacklist), the cog and command checks, argument   *)
(* parsing and the before-invoke hooks, and then the callback.             *)
(* Context.reinvoke parses the arguments and calls the callback.           *)
(***************************************************************************)
\* Mutants: the blacklist check registered before the cooldown, and the
\* arguments bound before admission.
Pipeline_blacklist_first == <<"blacklist", "ratelimit", "checks", "bind", "hook", "body">>
Pipeline_bind_first == <<"bind", "ratelimit", "blacklist", "checks", "hook", "body">>

\* Mutant: reinvoke runs the checks like invoke.
Reinvoke_checked == <<"ratelimit", "blacklist", "checks", "bind", "body">>

Pipeline == <<"ratelimit", "blacklist", "checks", "bind", "hook", "body">>
Reinvoke == <<"bind", "body">>

Stages(mode) == IF mode = "invoke" THEN Pipeline ELSE Reinvoke

StageAfter(mode, s) ==
    LET st == Stages(mode)
        p == CHOOSE k \in 1..Len(st) : st[k] = s
    IN  IF p < Len(st) THEN st[p + 1] ELSE "done"

NewInv(author, line, bindOk, mode, parent) ==
    [author |-> author, line |-> line, bindOk |-> bindOk, mode |-> mode,
     parent |-> parent, pc |-> Stages(mode)[1], trace |-> <<>>,
     err |-> "none", seen |-> "unread", child |-> 0]

\* Slots still needed by the nested invocations of the running commands.
RECURSIVE Reserved(_, _)
Reserved(s, k) ==
    IF k = 0 THEN 0
    ELSE Reserved(s, k - 1)
         + (IF s[k].pc \notin {"nested", "done"} THEN Len(s[k].line) - 1 ELSE 0)

Step(i, stage, pc2) ==
    [inv EXCEPT ![i].trace = Append(@, stage), ![i].pc = pc2]

Fail(i, stage, e) ==
    [inv EXCEPT ![i].trace = Append(@, stage), ![i].pc = "done", ![i].err = e]

Idx == 1..Len(inv)

\* The buckets after n earlier attempts of every user u at the time current.
RECURSIVE Consumed(_, _, _, _)
Consumed(cache, key, n, current) ==
    IF n = 0 THEN cache
    ELSE LET c == get_bucket(cache, key, current)
         IN  Consumed([c EXCEPT ![key] = update_rate_limit(c[key], current).bucket],
                      key, n - 1, current)

\* No handler has built a Loading object yet.
NoLoading ==
    [pc |-> "idle", prop |-> TRUE, tick |-> TRUE, exc_ignore |-> {},
     can_react |-> TRUE, exc |-> "none", escaped |-> "none", markers |-> {}]

LoadingIdle == ld = NoLoading /\ calls = <<>> /\ events = <<>>

\* Nobody has set a default reddit account.
NoAlias == "none"
StorageIdle ==
    /\ default_reddit = [u \in Users |-> NoAlias]
    /\ cached_reddit = default_reddit

\* No handler has called ctx.prompt yet.
NoPayload == [user_id |-> "none", emoji |-> "none", message_id |-> "none"]
NoPrompt ==
    [pc |-> "idle", author |-> "none", markers |-> {}, content |-> "none",
     edits |-> 0, picked |-> NoPayload, result |-> {}, escaped |-> "none"]

PromptIdle == pr = NoPrompt /\ payloads = <<>>

\* The invocations whose error may be escalated, and their invokers.
Escs == {1, 2}
EscAuthor == <<"ann", "bob">>

NoReaction == [message |-> 0, user |-> "none", emoji |-> "none"]
NoEsc ==
    [pc |-> "idle", do_emojis |-> TRUE, elapsed |-> 0, markers |-> {},
     by |-> NoReaction, at |-> 0, sent |-> 0, timed_out |-> FALSE]
NoDelivery == [ev |-> NoReaction, waiting |-> {}, ended |-> {}, n |-> 0]

EscIdle == esc = [k \in Escs |-> NoEsc] /\ reactions = NoDelivery

\* No message is being resolved.
NoMessage == [guild |-> "dm", used |-> "none", path |-> <<>>, rest |-> "none"]
NoPrefix == [pc |-> "unset", valid |-> {}]
NoContext == [pc |-> "unset", command |-> "none", left |-> <<>>, rest |-> "none"]

MessageIdle ==
    /\ closed = FALSE
    /\ guild_cache = <<>>
    /\ message = NoMessage
    /\ prefix = NoPrefix
    /\ rctx = NoContext

\* No pagination session has been started.
NoInput == [kind |-> "none", page |-> 0]
NoMenu ==
    [pc |-> "idle", entries |-> 0, per_page |-> 1, max_pages |-> 0,
     current_page |-> 0, input |-> NoInput, before |-> 0]

MenuIdle == menu = NoMenu

\* `dev delete` has not been called.
NoDelete ==
    [pc |-> "idle", ids |-> <<>>, manage |-> FALSE, deleted |-> {},
     err |-> "none", ticked |-> FALSE]

DeleteIdle == dl = NoDelete

\* No safe_send call has been made.
NoSend == [pc |-> "idle", content |-> <<>>, out |-> <<>>, via |-> "none"]
SendIdle == ss = NoSend

\* No rand command has been invoked.
NoPost == [over_18 |-> "none", is_video |-> "none", gif |-> "none"]
NoRand ==
    [pc |-> "idle", cmd |-> "none", author |-> "none", channel |-> "none",
     sort |-> "none", safe |-> FALSE, requests |-> 0, status |-> 0, listing |-> {},
     candidates |-> {}, post |-> NoPost, err |-> "none"]
RandIdle == rd = NoRand

\* The bot after __ainit__: the caches mirror storage.  The owner has used
\* the bot before; earlier attempts may have used up part of a bucket.
Init ==
    /\ LoadingIdle
    /\ MenuIdle /\ DeleteIdle /\ SendIdle /\ RandIdle
    /\ StorageIdle /\ PromptIdle /\ EscIdle /\ MessageIdle
    /\ now = Per + 1
    /\ \E n \in [Users -> 0..Rate] :
           cd = Consumed(Consumed(<<>>, "owner", n["owner"], now), "ann", n["ann"], now)
    /\ db \in [Users -> {"absent", "clean", "black"}]
    /\ db["owner"] = "clean"
    /\ user_cache = db
    /\ inv = <<>>
    /\ consults = <<>>

InitCooldown ==
    /\ LoadingIdle
    /\ MenuIdle /\ DeleteIdle /\ SendIdle /\ RandIdle
    /\ StorageIdle /\ PromptIdle /\ EscIdle /\ MessageIdle
    /\ now = Per + 1
    /\ cd = <<>>
    /\ db = [u \in Users |-> IF u \in owner_ids THEN "clean" ELSE "absent"]
    /\ user_cache = db
    /\ inv = <<>>
    /\ consults = <<>>

Tick ==
    /\ now < Per + 1 + MaxTicks
    /\ now' = now + 1
    /\ UNCHANGED <<cd, user_cache, db, inv, consults>>
    /\ UNCHANGED lvars
    /\ UNCHANGED xvars

\* Bot.on_message / process_commands: a message that matches a command.
on_message(author, line, bindOk) ==
    /\ Len(inv) + Reserved(inv, Len(inv)) + Len(line) <= MaxInv
    /\ inv' = Append(inv, NewInv(author, line, bindOk, "invoke", 0))
    /\ UNCHANGED <<now, cd, user_cache, db, consults>>
    /\ UNCHANGED lvars
    /\ UNCHANGED xvars

\* NeoBot.global_cooldown.
global_cooldown(i) ==
    /\ inv[i].pc = "ratelimit"
    /\ LET key == inv[i].author
           cache == get_bucket(cd, key, now)
           r == update_rate_limit(cache[key], now)
       IN  /\ cd' = [cache EXCEPT ![key] = r.bucket]
           /\ consults' = Append(consults,
                  [inv |-> i, key |-> key, at |-> now,
                   pre |-> get_tokens(cache[key], now),
                   retry |-> r.retry, pass |-> ~Truthy(r.retry)])
           /\ inv' = IF Truthy(r.retry)
                     THEN Fail(i, "ratelimit", "CommandOnCooldown")
                     ELSE Step(i, "ratelimit", StageAfter(inv[i].mode, "ratelimit"))
    /\ UNCHANGED <<now, user_cache, db>>
    /\ UNCHANGED lvars
    /\ UNCHANGED xvars

\* Mutant: an invoker without a cached profile is denied too.
Blacklisted_or_unknown(p) == p = "absent" \/ p = "black"

\* NeoBot.check_blacklist: TRUE when the check raises Blacklisted.
Blacklisted(p) == p # "absent" /\ p = "black"

check_blacklist(i) ==
    /\ inv[i].pc = "blacklist"
    /\ LET p == user_cache[inv[i].author]
           s == [inv EXCEPT ![i].seen = p]
       IN  inv' = IF Blacklisted(p)
                  THEN [s EXCEPT ![i].trace = Append(@, "blacklist"),
                                 ![i].pc = "done", ![i].err = "Blacklisted"]
                  ELSE [s EXCEPT ![i].trace = Append(@, "blacklist"),
                                 ![i].pc = StageAfter(inv[i].mode, "blacklist")]
    /\ UNCHANGED <<now, cd, user_cache, db, consults>>
    /\ UNCHANGED lvars
    /\ UNCHANGED xvars

\* Mutant: the Dev cog has no cog_check.
CheckPasses_no_cog_check(w, author) ==
    IF w.c = "bypass" THEN author \in owner_ids ELSE TRUE

\* Dev.cog_check and the commands.is_owner() check of rand bypass.
CheckPasses(w, author) ==
    IF w.c \in DevCmds \cup DevLeafCmds \cup DevReinvokeCmds \cup DevPromptCmds \cup {"bypass"}
    THEN author \in owner_ids ELSE TRUE

checks(i) ==
    /\ inv[i].pc = "checks"
    /\ inv' = IF CheckPasses(Head(inv[i].line), inv[i].author)
              THEN Step(i, "checks", StageAfter(inv[i].mode, "checks"))
              ELSE Fail(i, "checks", "CheckFailure")
    /\ UNCHANGED <<now, cd, user_cache, db, consults>>
    /\ UNCHANGED lvars
    /\ UNCHANGED xvars

\* Command._parse_arguments: the converters of the command's parameters.
BindOk(r) == Len(r.line) > 1 \/ r.bindOk

bind(i) ==
    /\ inv[i].pc = "bind"
    /\ inv' = IF BindOk(inv[i])
              THEN Step(i, "bind", StageAfter(inv[i].mode, "bind"))
              ELSE Fail(i, "bind", "BindingError")
    /\ UNCHANGED <<now, cd, user_cache, db, consults>>
    /\ UNCHANGED lvars
    /\ UNCHANGED xvars

\* NeoBot.before: the cache lookup.
before(i) ==
    /\ inv[i].pc = "hook"
    /\ inv' = IF user_cache[inv[i].author] # "absent"
              THEN Step(i, "hook", StageAfter(inv[i].mode, "hook"))
              ELSE Step(i, "hook", "insert")
    /\ UNCHANGED <<now, cd, user_cache, db, consults>>
    /\ UNCHANGED lvars
    /\ UNCHANGED xvars

\* Mutant: the UniqueViolationError is not suppressed and fails the
\* invocation.
before_insert_unsuppressed(i) ==
    /\ inv[i].pc = "insert"
    /\ IF db[inv[i].author] = "absent"
       THEN /\ db' = [db EXCEPT ![inv[i].author] = "clean"]
            /\ inv' = [inv EXCEPT ![i].pc = "refresh"]
       ELSE /\ db' = db
            /\ inv' = [inv EXCEPT ![i].pc = "done", ![i].err = "UniqueViolationError"]
    /\ UNCHANGED <<now, cd, user_cache, consults>>
    /\ UNCHANGED lvars
    /\ UNCHANGED xvars

\* NeoBot.before: the INSERT; a UniqueViolationError leaves the block.
before_insert(i) ==
    /\ inv[i].pc = "insert"
    /\ IF db[inv[i].author] = "absent"
       THEN /\ db' = [db EXCEPT ![inv[i].author] = "clean"]
            /\ inv' = [inv EXCEPT ![i].pc = "refresh"]
       ELSE /\ db' = db
            /\ inv' = [inv EXCEPT ![i].pc = StageAfter(inv[i].mode, "hook")]
    /\ UNCHANGED <<now, cd, user_cache, consults>>
    /\ UNCHANGED lvars
    /\ UNCHANGED xvars

\* DbCache.refresh: the cache is reloaded wholesale from storage.
DbCacheRefresh(storage) == storage

before_refresh(i) ==
    /\ inv[i].pc = "refresh"
    /\ user_cache' = DbCacheRefresh(db)
    /\ cached_reddit' = DbCacheRefresh(default_reddit)
    /\ inv' = [inv EXCEPT ![i].pc = StageAfter(inv[i].mode, "hook")]
    /\ UNCHANGED <<now, cd, db, consults>>
    /\ UNCHANGED lvars
    /\ UNCHANGED <<default_reddit, pvars, evars, mvars>>
    /\ UNCHANGED uvars

\* Mutants: every nested invocation goes through Bot.invoke; the nested
\* invocation keeps the author of the invoking message.
copy_ctx_always_invoke(w, author) ==
    [author |-> IF w.c = "sudo" /\ w.t # NoUser THEN w.t ELSE author,
     mode |-> "invoke"]

copy_ctx_keep_author(w, author) ==
    [author |-> author,
     mode |-> IF (w.c = "sudo" /\ w.t = NoUser) \/ w.c \in {"debug"} \cup DevReinvokeCmds
              THEN "reinvoke" ELSE "invoke"]

\* copy_ctx as used by the Dev commands: the author and the dispatch of
\* the nested invocation.  sudo without a target and debug reinvoke;
\* sudo with a target and sudo in go through Bot.invoke.
copy_ctx(w, author) ==
    [author |-> IF w.c = "sudo" /\ w.t # NoUser THEN w.t ELSE author,
     mode |-> IF (w.c = "sudo" /\ w.t = NoUser) \/ w.c \in {"debug"} \cup DevReinvokeCmds
              THEN "reinvoke" ELSE "invoke"]

\* The handler body of a command that does not re-dispatch.
body(i) ==
    /\ inv[i].pc = "body"
    /\ IsLeaf(Head(inv[i].line))
    /\ inv' = Step(i, "body", "done")
    /\ UNCHANGED <<now, cd, user_cache, db, consults>>
    /\ UNCHANGED lvars
    /\ UNCHANGED xvars

\* Dev.sudo, Dev._in, Dev.debug: the body up to the nested invocation.
redispatch(i) ==
    /\ inv[i].pc = "body"
    /\ ~IsLeaf(Head(inv[i].line))
    /\ LET c == copy_ctx(Head(inv[i].line), inv[i].author)
           k == Len(inv) + 1
       IN  inv' = Append([inv EXCEPT ![i].trace = Append(@, "body"),
                                      ![i].pc = "nested", ![i].child = k],
                         NewInv(c.author, Tail(inv[i].line), inv[i].bindOk, c.mode, i))
    /\ UNCHANGED <<now, cd, user_cache, db, consults>>
    /\ UNCHANGED lvars
    /\ UNCHANGED xvars

\* The nested invocation has returned.  An error of a reinvoked command is
\* raised into the body of sudo, which fails with it; debug catches it;
\* Bot.invoke reports the errors of the command it invokes and returns
\* normally.
returned(i) ==
    /\ inv[i].pc = "nested"
    /\ inv[inv[i].child].pc = "done"
    /\ LET ch == inv[inv[i].child]
           raised == ch.mode = "reinvoke" /\ ch.err # "none"
                     /\ Head(inv[i].line).c # "debug"
       IN  inv' = [inv EXCEPT ![i].pc = "done",
                              ![i].err = IF raised THEN "HandlerFailure" ELSE @]
    /\ UNCHANGED <<now, cd, user_cache, db, consults>>
    /\ UNCHANGED lvars
    /\ UNCHANGED xvars

Next ==
    \/ \E a \in Users, l \in Lines, b \in BOOLEAN : on_message(a, l, b)
    \/ \E i \in Idx : global_cooldown(i)
    \/ \E i \in Idx : check_blacklist(i)
    \/ \E i \in Idx : checks(i)
    \/ \E i \in Idx : bind(i)
    \/ \E i \in Idx : before(i)
    \/ \E i \in Idx : before_insert(i)
    \/ \E i \in Idx : before_refresh(i)
    \/ \E i \in Idx : body(i)
    \/ \E i \in Idx : redispatch(i)
    \/ \E i \in Idx : returned(i)

Spec == Init /\ [][Next]_vars

\* A user sends a plain command; time passes between and during attempts.
attempt(author) ==
    /\ Len(inv) < MaxAttempts
    /\ inv' = Append(inv, NewInv(author, <<[c |-> "covid", t |-> NoUser]>>, TRUE, "invoke", 0))
    /\ UNCHANGED <<now, cd, user_cache, db, consults>>
    /\ UNCHANGED lvars
    /\ UNCHANGED xvars

\* The later stages neither read nor write the buckets (see Spec), so the
\* attempts are followed through the rate-limit stage.
NextCooldown ==
    \/ Tick
    \/ \E a \in Users : attempt(a)
    \/ \E i \in Idx : global_cooldown(i)

SpecCooldown == InitCooldown /\ [][NextCooldown]_vars

(***************************************************************************)
(* A handler whose body is one `async with ctx.loading(...)` block.  The   *)
(* platform answers every marker request: "ok", "blocked" (HTTP error code *)
(* 90001) or "forbidden" (any other HTTP error, such as 50013).  calls is  *)
(* the log of the marker requests, events the command_error events.        *)
(***************************************************************************)
Excs == {"ApiError", "KeyError"}
AddResults == {"ok", "blocked", "forbidden"}
RemoveResults == {"ok", "forbidden"}

Call(op, emoji, res) == [op |-> op, emoji |-> emoji, res |-> res]

InitLoading ==
    /\ LoadingIdle
    /\ MenuIdle /\ DeleteIdle /\ SendIdle /\ RandIdle
    /\ StorageIdle /\ PromptIdle /\ EscIdle /\ MessageIdle
    /\ now = Per + 1
    /\ cd = <<>>
    /\ db = [u \in Users |-> "clean"]
    /\ user_cache = db
    /\ inv = <<>>
    /\ consults = <<>>

\* Context.loading / Loading.__init__.
loading(prop, tick, exc_ignore) ==
    /\ ld.pc = "idle"
    /\ ld' = [ld EXCEPT !.pc = "enter", !.prop = prop, !.tick = tick,
                        !.exc_ignore = exc_ignore]
    /\ UNCHANGED <<calls, events>>
    /\ UNCHANGED dvars
    /\ UNCHANGED xvars

\* Loading.__aenter__: a refused request is swallowed; can_react is
\* cleared for error code 90001 only.
aenter(res) ==
    /\ ld.pc = "enter"
    /\ calls' = Append(calls, Call("add", "loading", res))
    /\ ld' = [ld EXCEPT !.pc = "body",
                        !.can_react = IF res = "blocked" THEN FALSE ELSE @,
                        !.markers = IF res = "ok" THEN @ \cup {"loading"} ELSE @]
    /\ UNCHANGED events
    /\ UNCHANGED dvars
    /\ UNCHANGED xvars

\* The body of the block: it completes or raises.
block_body(exc) ==
    /\ ld.pc = "body"
    /\ ld' = [ld EXCEPT !.pc = "exit", !.exc = exc]
    /\ UNCHANGED <<calls, events>>
    /\ UNCHANGED dvars
    /\ UNCHANGED xvars

\* Loading.__aexit__, first statement: the removal of the working marker.
\* A refusal is raised out of __aexit__.
aexit_remove(res) ==
    /\ ld.pc = "exit"
    /\ calls' = Append(calls, Call("remove", "loading", res))
    /\ ld' = IF res = "ok"
             THEN [ld EXCEPT !.pc = "decide", !.markers = @ \ {"loading"}]
             ELSE [ld EXCEPT !.pc = "raised", !.escaped = "HTTPException"]
    /\ UNCHANGED events
    /\ UNCHANGED dvars
    /\ UNCHANGED xvars

\* Mutants: the ignorable list is not consulted; exceptions are never
\* dispatched; finalise does not look at tick.
Ignored_never(l) == FALSE
Propagated_never(l) == FALSE
finalise_always(l) == l.can_react = TRUE

\* `self.exc_ignore and isinstance(exc, self.exc_ignore)`.
Ignored(l) == l.exc_ignore # {} /\ l.exc \in l.exc_ignore

\* `self.prop and exc is not None`.
Propagated(l) == l.prop /\ l.exc # "none"

\* Loading.finalise: TRUE when it requests the success marker.
finalise(l) == l.can_react = TRUE /\ l.tick

\* Loading.__aexit__, the rest: an ignorable exception is swallowed after
\* finalise; otherwise an exception is dispatched as command_error and
\* swallowed when prop is set; otherwise finalise runs and the exception,
\* if any, leaves the block.  res is the platform's answer to finalise.
aexit_finish(res) ==
    /\ ld.pc = "decide"
    /\ LET dispatches == ~Ignored(ld) /\ Propagated(ld)
           adds == ~dispatches /\ finalise(ld)
           out == IF Ignored(ld) \/ dispatches THEN "none" ELSE ld.exc
       IN  /\ (~adds => res = "ok")
           /\ calls' = IF adds THEN Append(calls, Call("add", "tick", res)) ELSE calls
           /\ events' = IF dispatches
                        THEN Append(events, [exc |-> ld.exc, via |-> "dispatch"])
                        ELSE events
           /\ ld' = IF res # "ok"
                    THEN [ld EXCEPT !.pc = "raised", !.escaped = "HTTPException"]
                    ELSE [ld EXCEPT !.pc = IF out = "none" THEN "after" ELSE "raised",
                                    !.escaped = out,
                                    !.markers = IF adds THEN @ \cup {"tick"} ELSE @]
    /\ UNCHANGED dvars
    /\ UNCHANGED xvars

\* The statements of the handler after the block.  When the body raised
\* and the exception was swallowed by __aexit__, a statement that reads a
\* name assigned inside the block (`pages` in Dev.shell) raises
\* UnboundLocalError; github user and github repo suppress it.
after_block(unbound) ==
    /\ ld.pc = "after"
    /\ unbound => ld.exc # "none"
    /\ ld' = [ld EXCEPT !.pc = IF unbound THEN "unbound" ELSE "returned"]
    /\ UNCHANGED <<calls, events>>
    /\ UNCHANGED dvars
    /\ UNCHANGED xvars

\* The UnboundLocalError leaves the handler: Bot.invoke dispatches
\* command_error for it.
unbound_error ==
    /\ ld.pc = "unbound"
    /\ events' = Append(events, [exc |-> "UnboundLocalError", via |-> "invoke"])
    /\ ld' = [ld EXCEPT !.pc = "failed"]
    /\ UNCHANGED calls
    /\ UNCHANGED dvars
    /\ UNCHANGED xvars

\* An exception that leaves the handler: Bot.invoke dispatches
\* command_error for it.
command_error ==
    /\ ld.pc = "raised"
    /\ events' = Append(events, [exc |-> ld.escaped, via |-> "invoke"])
    /\ ld' = [ld EXCEPT !.pc = "reported"]
    /\ UNCHANGED calls
    /\ UNCHANGED dvars
    /\ UNCHANGED xvars

NextLoading ==
    \/ \E p \in BOOLEAN, t \in BOOLEAN, x \in SUBSET Excs : loading(p, t, x)
    \/ \E res \in AddResults : aenter(res)
    \/ \E exc \in Excs \cup {"none"} : block_body(exc)
    \/ \E res \in RemoveResults : aexit_remove(res)
    \/ \E res \in AddResults : aexit_finish(res)
    \/ \E u \in BOOLEAN : after_block(u)
    \/ unbound_error
    \/ command_error

SpecLoading == InitLoading /\ [][NextLoading]_vars

(***************************************************************************)
(* Preference storage and its cache.  user_data has one row per user; the  *)
(* row's default_reddit column is written by `redditor default`.  Every    *)
(* command goes through the whole pipeline, and the before-invoke hook     *)
(* adds the row of a first-time invoker.                                   *)
(***************************************************************************)
Aliases == {"u1", "u2"}

InitStorage ==
    /\ LoadingIdle
    /\ MenuIdle /\ DeleteIdle /\ SendIdle /\ RandIdle
    /\ StorageIdle /\ PromptIdle /\ EscIdle /\ MessageIdle
    /\ now = Per + 1
    /\ cd = <<>>
    /\ db \in [Users -> {"absent", "clean"}]
    /\ db["owner"] = "clean"
    /\ user_cache = db
    /\ inv = <<>>
    /\ consults = <<>>

\* A message that matches `covid` or `redditor default <reddit_user>`.
command(author, c) ==
    /\ Len(inv) < MaxInv
    /\ inv' = Append(inv, NewInv(author, <<[c |-> c, t |-> NoUser]>>, TRUE, "invoke", 0))
    /\ UNCHANGED <<now, cd, user_cache, db, consults>>
    /\ UNCHANGED lvars
    /\ UNCHANGED xvars

\* Api.default: the UPDATE of the invoker's row, then the tick reaction.
default(i, reddit_user) ==
    /\ inv[i].pc = "body"
    /\ Head(inv[i].line).c = "default"
    /\ default_reddit' = IF db[inv[i].author] # "absent"
                         THEN [default_reddit EXCEPT ![inv[i].author] = reddit_user]
                         ELSE default_reddit
    /\ inv' = Step(i, "body", "done")
    /\ UNCHANGED <<now, cd, user_cache, db, consults>>
    /\ UNCHANGED lvars
    /\ UNCHANGED <<cached_reddit, pvars, evars, mvars>>
    /\ UNCHANGED uvars

NextStorage ==
    \/ \E a \in Users, c \in {"covid", "default"} : command(a, c)
    \/ \E i \in Idx : global_cooldown(i)
    \/ \E i \in Idx : check_blacklist(i)
    \/ \E i \in Idx : checks(i)
    \/ \E i \in Idx : bind(i)
    \/ \E i \in Idx : before(i)
    \/ \E i \in Idx : before_insert(i)
    \/ \E i \in Idx : before_refresh(i)
    \/ \E i \in Idx : body(i)
    \/ \E i \in Idx, r \in Aliases : default(i, r)

SpecStorage == InitStorage /\ [][NextStorage]_vars

(***************************************************************************)
(* Context.prompt.  The platform answers each add_reaction with "ok" or    *)
(* "forbidden"; raw_reaction_add payloads arrive at any time after the     *)
(* prompt message exists, from any user (the bot included), with any       *)
(* emoji, on the prompt message or on another one.                         *)
(***************************************************************************)
MaxPayloads == 2

PromptEmojis == <<"check_button", "x_button">>
PayloadUsers == Users \cup {"neo"}
Payloads == [user_id : PayloadUsers, emoji : {"check_button", "x_button", "other"},
             message_id : {"prompt", "other"}]

\* Mutant: every marker of the dict maps to True.
emojis_all_true(e) == TRUE

\* The emojis dict of prompt.
emojis(e) == e = "check_button"

\* Mutant: the check does not compare the user.
prompt_check_any_user(p, author) ==
    /\ p.emoji \in {PromptEmojis[k] : k \in 1..Len(PromptEmojis)}
    /\ p.message_id = "prompt"

\* The check passed to wait_for.
prompt_check(p, author) ==
    /\ p.emoji \in {PromptEmojis[k] : k \in 1..Len(PromptEmojis)}
    /\ p.user_id = author
    /\ p.message_id = "prompt"

InitPrompt ==
    /\ LoadingIdle
    /\ MenuIdle /\ DeleteIdle /\ SendIdle /\ RandIdle
    /\ StorageIdle /\ PromptIdle /\ EscIdle /\ MessageIdle
    /\ now = Per + 1
    /\ cd = <<>>
    /\ db = [u \in Users |-> "clean"]
    /\ user_cache = db
    /\ inv = <<>>
    /\ consults = <<>>

\* prompt: `msg = await self.send(message)`.
prompt(author) ==
    /\ pr.pc = "idle"
    /\ pr' = [pr EXCEPT !.pc = "add_reaction", !.author = author, !.content = "question"]
    /\ UNCHANGED payloads
    /\ UNCHANGED dvars
    /\ UNCHANGED lvars
    /\ UNCHANGED <<svars, evars, mvars>>
    /\ UNCHANGED uvars

\* prompt: one `await msg.add_reaction(e)` of the loop.  A refusal is not
\* caught and leaves prompt.
prompt_add_reaction(res) ==
    /\ pr.pc = "add_reaction"
    /\ LET e == PromptEmojis[Cardinality(pr.markers) + 1]
       IN  pr' = IF res = "ok"
                 THEN [pr EXCEPT !.markers = @ \cup {e},
                                 !.pc = IF Cardinality(pr.markers \cup {e}) = Len(PromptEmojis)
                                        THEN "waiting" ELSE "add_reaction"]
                 ELSE [pr EXCEPT !.pc = "raised", !.escaped = "Forbidden"]
    /\ UNCHANGED payloads
    /\ UNCHANGED dvars
    /\ UNCHANGED lvars
    /\ UNCHANGED <<svars, evars, mvars>>
    /\ UNCHANGED uvars

\* The dispatch of one raw_reaction_add payload.  It resumes prompt when
\* prompt is waiting and the check accepts the payload; otherwise nothing
\* listens to it.
raw_reaction_add(p) ==
    /\ pr.pc # "idle"
    /\ Len(payloads) < MaxPayloads
    /\ LET resumes == pr.pc = "waiting" /\ prompt_check(p, pr.author)
       IN  /\ payloads' = Append(payloads,
                  [p |-> p, waiting |-> pr.pc = "waiting", resumed |-> resumes])
           /\ pr' = IF resumes THEN [pr EXCEPT !.pc = "edit", !.picked = p] ELSE pr
    /\ UNCHANGED dvars
    /\ UNCHANGED lvars
    /\ UNCHANGED <<svars, evars, mvars>>
    /\ UNCHANGED uvars

\* prompt: the edit of the message and the return value.
prompt_edit ==
    /\ pr.pc = "edit"
    /\ pr' = [pr EXCEPT !.pc = "returned",
                        !.content = IF emojis(pr.picked.emoji) THEN "Confirmed!" ELSE "Cancelled!",
                        !.edits = @ + 1,
                        !.result = {emojis(pr.picked.emoji)}]
    /\ UNCHANGED payloads
    /\ UNCHANGED dvars
    /\ UNCHANGED lvars
    /\ UNCHANGED <<svars, evars, mvars>>
    /\ UNCHANGED uvars

NextPrompt ==
    \/ \E a \in Users : prompt(a)
    \/ \E res \in {"ok", "forbidden"} : prompt_add_reaction(res)
    \/ \E p \in Payloads : raw_reaction_add(p)
    \/ prompt_edit

SpecPrompt == InitPrompt /\ [][NextPrompt]_vars

\* The steps of prompt itself are taken whenever they can be; nothing
\* obliges a user to react.
SpecPromptFair ==
    /\ InitPrompt /\ [][NextPrompt]_vars
    /\ WF_vars(\E res \in {"ok", "forbidden"} : prompt_add_reaction(res))
    /\ WF_vars(prompt_edit)

(***************************************************************************)
(* Context.propagate_error, called for the errors of two concurrent        *)
(* invocations: invocation k was triggered by message k of EscAuthor[k].   *)
(* reaction_add events arrive from any user (the bot included), with any   *)
(* emoji, on either message.  The wait's clock counts ticks of 10          *)
(* time-units, so timeout=30.0 is 3 ticks.                                 *)
(***************************************************************************)
MaxReactions == 2

EscTimeout == 3

Reactors == Users \cup {"bob", "neo"}
Reactions == [message : Escs, user : Reactors, emoji : {"warning_button", "other"}]

\* Mutant: the check does not compare the message.
esc_check_any_message(r, k) ==
    r.user \in {EscAuthor[k]} \cup owner_ids

\* The check passed to wait_for by the call for invocation k.
esc_check(r, k) ==
    /\ r.message = k
    /\ r.user \in {EscAuthor[k]} \cup owner_ids

InitEscalate ==
    /\ LoadingIdle
    /\ MenuIdle /\ DeleteIdle /\ SendIdle /\ RandIdle
    /\ StorageIdle /\ PromptIdle /\ EscIdle /\ MessageIdle
    /\ now = Per + 1
    /\ cd = <<>>
    /\ db = [u \in Users |-> "clean"]
    /\ user_cache = db
    /\ inv = <<>>
    /\ consults = <<>>

\* propagate_error up to the first await: without markers the error is
\* sent at once.
propagate_error(k, do_emojis) ==
    /\ esc[k].pc = "idle"
    /\ esc' = [esc EXCEPT ![k].do_emojis = do_emojis,
                          ![k].pc = IF do_emojis THEN "add" ELSE "done",
                          ![k].sent = IF do_emojis THEN 0 ELSE 1]
    /\ UNCHANGED reactions
    /\ UNCHANGED dvars
    /\ UNCHANGED lvars
    /\ UNCHANGED <<svars, pvars, mvars>>
    /\ UNCHANGED uvars

\* The add_reaction of the warning marker.  suppress(Exception) swallows a
\* refusal and propagate_error returns.
esc_add_reaction(k, res) ==
    /\ esc[k].pc = "add"
    /\ esc' = IF res = "ok"
              THEN [esc EXCEPT ![k].pc = "waiting",
                               ![k].markers = @ \cup {"warning_button"}]
              ELSE [esc EXCEPT ![k].pc = "done"]
    /\ UNCHANGED reactions
    /\ UNCHANGED dvars
    /\ UNCHANGED lvars
    /\ UNCHANGED <<svars, pvars, mvars>>
    /\ UNCHANGED uvars

\* The dispatch of one reaction_add event to the waiting calls: each call
\* whose check accepts the event is resumed with it.
reaction_add(r) ==
    /\ \E k \in Escs : esc[k].pc # "idle"
    /\ reactions.n < MaxReactions
    /\ LET waiting == {k \in Escs : esc[k].pc = "waiting"}
           ended == {k \in waiting : esc_check(r, k)}
       IN  /\ reactions' = [ev |-> r, waiting |-> waiting, ended |-> ended,
                            n |-> reactions.n + 1]
           /\ esc' = [k \in Escs |->
                         IF k \in ended
                         THEN [esc[k] EXCEPT !.pc = "resumed", !.by = r,
                                             !.at = esc[k].elapsed]
                         ELSE esc[k]]
    /\ UNCHANGED dvars
    /\ UNCHANGED lvars
    /\ UNCHANGED <<svars, pvars, mvars>>
    /\ UNCHANGED uvars

\* Ten time-units pass for every waiting call.
esc_tick ==
    /\ \E k \in Escs : esc[k].pc = "waiting"
    /\ \A k \in Escs : esc[k].pc = "waiting" => esc[k].elapsed < EscTimeout
    /\ esc' = [k \in Escs |->
                  IF esc[k].pc = "waiting"
                  THEN [esc[k] EXCEPT !.elapsed = @ + 1] ELSE esc[k]]
    /\ UNCHANGED reactions
    /\ UNCHANGED dvars
    /\ UNCHANGED lvars
    /\ UNCHANGED <<svars, pvars, mvars>>
    /\ UNCHANGED uvars

\* asyncio.TimeoutError: the warning marker is removed; a refusal of the
\* removal is swallowed by suppress(Exception).
esc_timeout(k, res) ==
    /\ esc[k].pc = "waiting"
    /\ esc[k].elapsed = EscTimeout
    /\ esc' = [esc EXCEPT ![k].pc = "done", ![k].timed_out = TRUE,
                          ![k].markers = IF res = "ok" THEN @ \ {"warning_button"} ELSE @]
    /\ UNCHANGED reactions
    /\ UNCHANGED dvars
    /\ UNCHANGED lvars
    /\ UNCHANGED <<svars, pvars, mvars>>
    /\ UNCHANGED uvars

\* After wait_for has returned: the error is sent when the emoji of the
\* reaction is the warning marker.
esc_send(k) ==
    /\ esc[k].pc = "resumed"
    /\ esc' = [esc EXCEPT ![k].pc = "done",
                          ![k].sent = IF esc[k].by.emoji = "warning_button"
                                      THEN @ + 1 ELSE @]
    /\ UNCHANGED reactions
    /\ UNCHANGED dvars
    /\ UNCHANGED lvars
    /\ UNCHANGED <<svars, pvars, mvars>>
    /\ UNCHANGED uvars

NextEscalate ==
    \/ \E k \in Escs, d \in BOOLEAN : propagate_error(k, d)
    \/ \E k \in Escs, res \in {"ok", "forbidden"} : esc_add_reaction(k, res)
    \/ \E r \in Reactions : reaction_add(r)
    \/ esc_tick
    \/ \E k \in Escs, res \in {"ok", "forbidden"} : esc_timeout(k, res)
    \/ \E k \in Escs : esc_send(k)

SpecEscalate == InitEscalate /\ [][NextEscalate]_vars

(***************************************************************************)
(* The resolution of one incoming message: get_prefix, the prefix match    *)
(* and command lookup of Bot.get_context, and the subcommand lookup of     *)
(* Group.invoke.  A word of the message is its lower-case spelling and     *)
(* whether it was typed in lower case.  The bot is built with              *)
(* case_insensitive=True; the groups are registered without it.            *)
(***************************************************************************)
\* Mutant: another default prefix.
DefaultPrefix_bang == {"!"}

\* `prefix = ['n/']`.
DefaultPrefix == {"n/"}

Mentions == {"<@neo> ", "<@!neo> "}
Guilds == {"g1"}
OverrideTexts == {"n/", "!"}

\* A row of guild_cache: has is whether the row has the key 'prefixes'.
Entries == {[has |-> FALSE, prefixes |-> {}]}
               \cup [has : {TRUE}, prefixes : SUBSET OverrideTexts]
GuildCaches == {<<>>} \cup [Guilds -> Entries]

TopWords == {"sub", "subreddit", "r", "tr", "fn", "foo"}
SubWords == {"mod", "modstats", "to", "shop", "foo"}
Token(ws) == [w : ws, lower : BOOLEAN]
Paths == {<<t>> : t \in Token(TopWords)}
             \cup {<<t, u>> : t \in Token(TopWords), u \in Token(SubWords)}
Messages == [guild : Guilds \cup {"dm"}, used : {"n/", "!", "<@neo> "},
             path : Paths, rest : {"", "args"}]

\* The names and aliases registered on the bot and on each group.
BotCommands ==
    [subreddit |-> "subreddit", sub |-> "subreddit",
     redditor |-> "redditor", r |-> "redditor",
     translate |-> "translate", tr |-> "translate",
     fortnite |-> "fortnite", fn |-> "fortnite"]

GroupCommands(c) ==
    CASE c = "redditor" -> [modstats |-> "redditor modstats", mod |-> "redditor modstats",
                            default |-> "redditor default", def |-> "redditor default"]
      [] c = "translate" -> [to |-> "translate to"]
      [] c = "fortnite" -> [itemshop |-> "fortnite itemshop", shop |-> "fortnite itemshop",
                            stats |-> "fortnite stats"]
      [] OTHER -> <<>>

\* Lookup in a _CaseInsensitiveDict (the key is case-folded) and in a dict.
ci_get(d, t) == IF t.w \in DOMAIN d THEN d[t.w] ELSE "none"
cs_get(d, t) == IF t.lower /\ t.w \in DOMAIN d THEN d[t.w] ELSE "none"

\* Mutant: the override is added to the default prefix.
text_prefixes_with_default(msg, cache) ==
    IF msg.guild # "dm" /\ msg.guild \in DOMAIN cache /\ cache[msg.guild].has
    THEN DefaultPrefix \cup cache[msg.guild].prefixes
    ELSE DefaultPrefix

\* get_prefix: the list given to when_mentioned_or.  A KeyError of either
\* subscript leaves the default in place.
text_prefixes(msg, cache) ==
    IF msg.guild # "dm" /\ msg.guild \in DOMAIN cache /\ cache[msg.guild].has
    THEN cache[msg.guild].prefixes
    ELSE DefaultPrefix

when_mentioned_or(ps) == Mentions \cup ps

InitMessage ==
    /\ LoadingIdle
    /\ MenuIdle /\ DeleteIdle /\ SendIdle /\ RandIdle
    /\ StorageIdle /\ PromptIdle /\ EscIdle
    /\ now = Per + 1
    /\ cd = <<>>
    /\ db = [u \in Users |-> "clean"]
    /\ user_cache = db
    /\ inv = <<>>
    /\ consults = <<>>
    /\ closed \in BOOLEAN
    /\ guild_cache \in GuildCaches
    /\ message \in Messages
    /\ prefix = NoPrefix
    /\ rctx = NoContext

\* get_prefix.  On a closed bot it returns None, which Bot.get_prefix
\* rejects with TypeError.
get_prefix ==
    /\ prefix.pc = "unset"
    /\ prefix' = IF closed
                 THEN [pc |-> "raised", valid |-> {}]
                 ELSE [pc |-> "set",
                       valid |-> when_mentioned_or(text_prefixes(message, guild_cache))]
    /\ UNCHANGED <<closed, guild_cache, message, rctx>>
    /\ UNCHANGED dvars
    /\ UNCHANGED lvars
    /\ UNCHANGED <<svars, pvars, evars>>
    /\ UNCHANGED uvars

\* Bot.get_context: the message must start with a valid prefix; the word
\* after it is looked up in the bot's commands.
get_context ==
    /\ prefix.pc = "set"
    /\ rctx.pc = "unset"
    /\ rctx' = IF message.used \notin prefix.valid
               THEN [rctx EXCEPT !.pc = "nomatch"]
               ELSE LET c == ci_get(BotCommands, message.path[1])
                    IN  [pc |-> IF c = "none" THEN "notfound" ELSE "found",
                         command |-> c, left |-> Tail(message.path),
                         rest |-> message.rest]
    /\ UNCHANGED <<closed, guild_cache, message, prefix>>
    /\ UNCHANGED dvars
    /\ UNCHANGED lvars
    /\ UNCHANGED <<svars, pvars, evars>>
    /\ UNCHANGED uvars

\* Group.invoke: the next word is looked up in the group's commands; a
\* word that is not found stays in the arguments of the group's command.
group_invoke ==
    /\ rctx.pc = "found"
    /\ LET subs == GroupCommands(rctx.command)
           c == IF rctx.left # <<>> THEN cs_get(subs, rctx.left[1]) ELSE "none"
       IN  rctx' = IF c # "none"
                   THEN [rctx EXCEPT !.pc = "resolved", !.command = c,
                                     !.left = Tail(rctx.left)]
                   ELSE [rctx EXCEPT !.pc = "resolved"]
    /\ UNCHANGED <<closed, guild_cache, message, prefix>>
    /\ UNCHANGED dvars
    /\ UNCHANGED lvars
    /\ UNCHANGED <<svars, pvars, evars>>
    /\ UNCHANGED uvars

NextMessage ==
    \/ get_prefix
    \/ get_context
    \/ group_invoke

SpecMessage == InitMessage /\ [][NextMessage]_vars

(***************************************************************************)
(* The pagination session that Context.quick_menu starts.  The session     *)
(* follows section 4.6 of the specification: page 0 is shown first, a      *)
(* navigation input of the invoker moves the current index when the        *)
(* requested page exists and is ignored otherwise, inputs of other users   *)
(* are ignored, and a stop input ends the session.  The handlers of        *)
(* src pass at least one entry.                                            *)
(***************************************************************************)
MaxEntries == 4

PerPages == {1, 2}
NavInputs == [kind : {"first", "previous", "next", "last"}, page : {0}]
                 \cup [kind : {"number"}, page : 0..(MaxEntries + 1)]

\* The number of pages of `entries` entries shown per_page at a time.
get_max_pages(entries, per_page) ==
    (entries \div per_page) + (IF entries % per_page # 0 THEN 1 ELSE 0)

\* The page an input asks for.
requested_page(m, input) ==
    CASE input.kind = "first" -> 0
      [] input.kind = "previous" -> m.current_page - 1
      [] input.kind = "next" -> m.current_page + 1
      [] input.kind = "last" -> m.max_pages - 1
      [] OTHER -> input.page - 1

\* Mutant: the requested page is shown without the range test.
show_checked_page_unchecked(m, page_number) == page_number

\* The index after a request for page_number: a request beyond the bounds
\* is ignored.
show_checked_page(m, page_number) ==
    IF m.max_pages > page_number /\ page_number >= 0
    THEN page_number ELSE m.current_page

InitMenu ==
    /\ LoadingIdle
    /\ MenuIdle /\ DeleteIdle /\ SendIdle /\ RandIdle
    /\ StorageIdle /\ PromptIdle /\ EscIdle /\ MessageIdle
    /\ now = Per + 1
    /\ cd = <<>>
    /\ db = [u \in Users |-> "clean"]
    /\ user_cache = db
    /\ inv = <<>>
    /\ consults = <<>>

\* Context.quick_menu: the source is built from the entries and the
\* session is started on page 0.
quick_menu(entries, per_page) ==
    /\ menu.pc = "idle"
    /\ menu' = [menu EXCEPT !.pc = "open", !.entries = entries,
                            !.per_page = per_page,
                            !.max_pages = get_max_pages(entries, per_page),
                            !.current_page = 0]
    /\ UNCHANGED <<dl, ss, rd>>
    /\ UNCHANGED dvars
    /\ UNCHANGED lvars
    /\ UNCHANGED <<svars, pvars, evars, mvars>>

\* One navigation input; the invoker of the session is "owner".
navigate(user, input) ==
    /\ menu.pc = "open"
    /\ menu' = IF user = "owner"
               THEN [menu EXCEPT !.current_page =
                                     show_checked_page(menu, requested_page(menu, input)),
                                 !.input = input, !.before = menu.current_page]
               ELSE menu
    /\ UNCHANGED <<dl, ss, rd>>
    /\ UNCHANGED dvars
    /\ UNCHANGED lvars
    /\ UNCHANGED <<svars, pvars, evars, mvars>>

\* The stop input, or the idle timeout.
menu_stop ==
    /\ menu.pc = "open"
    /\ menu' = [menu EXCEPT !.pc = "stopped"]
    /\ UNCHANGED <<dl, ss, rd>>
    /\ UNCHANGED dvars
    /\ UNCHANGED lvars
    /\ UNCHANGED <<svars, pvars, evars, mvars>>

NextMenu ==
    \/ \E e \in 1..MaxEntries, p \in PerPages : quick_menu(e, p)
    \/ \E u \in Users, i \in NavInputs : navigate(u, i)
    \/ menu_stop

SpecMenu == InitMenu /\ [][NextMenu]_vars

(***************************************************************************)
(* Dev.delete_bot_msg.  The channel holds a message of the bot, one of a   *)
(* human and one of another bot; an id may also name no message.  manage   *)
(* is whether the bot may delete the messages of others in the channel.    *)
(***************************************************************************)
MaxIds == 3

MessageAuthor == [m1 |-> "neo", m2 |-> "ann", m3 |-> "otherbot"]
MessageIds == {"m1", "m2", "m3", "m9"}
Bots == {"neo", "otherbot"}

RECURSIVE IdsOfLen(_)
IdsOfLen(n) ==
    IF n = 0 THEN {<<>>}
    ELSE {<<m>> \o l : m \in MessageIds, l \in IdsOfLen(n - 1)}

\* `m.author.bot`.
author_bot(m) == MessageAuthor[m] \in Bots

InitDelete ==
    /\ LoadingIdle
    /\ MenuIdle /\ DeleteIdle /\ SendIdle /\ RandIdle
    /\ StorageIdle /\ PromptIdle /\ EscIdle /\ MessageIdle
    /\ now = Per + 1
    /\ cd = <<>>
    /\ db = [u \in Users |-> "clean"]
    /\ user_cache = db
    /\ inv = <<>>
    /\ consults = <<>>

\* The call, with the ids that Greedy[int] has collected.
delete_bot_msg(message_ids, manage) ==
    /\ dl.pc = "idle"
    /\ dl' = [dl EXCEPT !.pc = "loop", !.ids = message_ids, !.manage = manage]
    /\ UNCHANGED <<menu, ss, rd>>
    /\ UNCHANGED dvars
    /\ UNCHANGED lvars
    /\ UNCHANGED <<svars, pvars, evars, mvars>>

\* One iteration of the loop: the conversion of the id, the test of the
\* author, the deletion.
delete_step ==
    /\ dl.pc = "loop"
    /\ dl.ids # <<>>
    /\ LET m == Head(dl.ids)
       IN  dl' = IF m \notin DOMAIN MessageAuthor \/ m \in dl.deleted
                 THEN [dl EXCEPT !.pc = "raised", !.err = "MessageNotFound"]
                 ELSE IF ~author_bot(m)
                 THEN [dl EXCEPT !.pc = "raised",
                                 !.err = "I can only delete my own messages"]
                 ELSE IF MessageAuthor[m] = "neo" \/ dl.manage
                 THEN [dl EXCEPT !.deleted = @ \cup {m}, !.ids = Tail(@)]
                 ELSE [dl EXCEPT !.pc = "raised", !.err = "Forbidden"]
    /\ UNCHANGED <<menu, ss, rd>>
    /\ UNCHANGED dvars
    /\ UNCHANGED lvars
    /\ UNCHANGED <<svars, pvars, evars, mvars>>

\* After the loop: the tick reaction.
delete_tick ==
    /\ dl.pc = "loop"
    /\ dl.ids = <<>>
    /\ dl' = [dl EXCEPT !.pc = "done", !.ticked = TRUE]
    /\ UNCHANGED <<menu, ss, rd>>
    /\ UNCHANGED dvars
    /\ UNCHANGED lvars
    /\ UNCHANGED <<svars, pvars, evars, mvars>>

NextDelete ==
    \/ \E n \in 0..MaxIds : \E ids \in IdsOfLen(n) : \E g \in BOOLEAN :
           delete_bot_msg(ids, g)
    \/ delete_step
    \/ delete_tick

SpecDelete == InitDelete /\ [][NextDelete]_vars

(***************************************************************************)
(* The Dev extension: shell stands for the handlers that do not            *)
(* re-dispatch; sudo, sudo in, debug and dev journalctl create a nested    *)
(* invocation through copy_ctx.  covid is a command outside the extension. *)
(* The arguments of every message convert.                                 *)
(***************************************************************************)
DevWords == [c : DevLeafCmds \cup {"covid"}, t : {NoUser}]
DevOuterWords == [c : {"sudo"}, t : Users \cup {NoUser}]
                     \cup [c : {"sudo_in", "debug"}, t : {NoUser}]
DevLines == {<<w>> : w \in DevWords}
                \cup {<<o, w>> : o \in DevOuterWords, w \in DevWords}
                \cup {<<[c |-> "dev_journalctl", t |-> NoUser], [c |-> "shell", t |-> NoUser]>>}

InitDev ==
    /\ LoadingIdle
    /\ MenuIdle /\ DeleteIdle /\ SendIdle /\ RandIdle
    /\ StorageIdle /\ PromptIdle /\ EscIdle /\ MessageIdle
    /\ now = Per + 1
    /\ cd = <<>>
    /\ db \in [Users -> {"absent", "clean", "black"}]
    /\ db["owner"] = "clean"
    /\ user_cache = db
    /\ inv = <<>>
    /\ consults = <<>>

NextDev ==
    \/ \E a \in Users, l \in DevLines : on_message(a, l, TRUE)
    \/ \E i \in Idx : global_cooldown(i)
    \/ \E i \in Idx : check_blacklist(i)
    \/ \E i \in Idx : checks(i)
    \/ \E i \in Idx : bind(i)
    \/ \E i \in Idx : before(i)
    \/ \E i \in Idx : before_insert(i)
    \/ \E i \in Idx : before_refresh(i)
    \/ \E i \in Idx : body(i)
    \/ \E i \in Idx : redispatch(i)
    \/ \E i \in Idx : returned(i)

SpecDev == InitDev /\ [][NextDev]_vars

(***************************************************************************)
(* Context.safe_send.  The content is a sequence of pieces separated by    *)
(* blanks: "text" is a run of 1000 plain characters, "tokA" and "tokB"     *)
(* are two different strings that match the first alternative of the       *)
(* pattern, "mfa" is a string that matches the second one.                 *)
(***************************************************************************)
MaxLen == 3

Tokens == {"tokA", "tokB", "mfa"}
Pieces == Tokens \cup {"text"}

RECURSIVE ContentsOfLen(_)
ContentsOfLen(n) ==
    IF n = 0 THEN {<<>>}
    ELSE {<<x>> \o c : x \in Pieces, c \in ContentsOfLen(n - 1)}

Contents == UNION {ContentsOfLen(n) : n \in 0..MaxLen}

\* len() of a piece, and of a content with its blanks.
PieceLen(x) ==
    CASE x = "text" -> 1000
      [] x = "mfa" -> 88
      [] x = "omitted" -> 15
      [] OTHER -> 59

RECURSIVE ContentLen(_)
ContentLen(c) ==
    IF c = <<>> THEN 0
    ELSE PieceLen(Head(c)) + (IF Len(c) > 1 THEN 1 ELSE 0) + ContentLen(Tail(c))

\* re.search: the positions of the matches; the match is the leftmost one.
Matches(c) == {k \in 1..Len(c) : c[k] \in Tokens}
search(c) == IF Matches(c) = {} THEN {}
             ELSE {c[CHOOSE k \in Matches(c) : \A j \in Matches(c) : k <= j]}

\* content.replace(match.group(0), '[token omitted]'): every occurrence of
\* the matched string is replaced.
replace(c, m) == [k \in 1..Len(c) |-> IF c[k] \in m THEN "omitted" ELSE c[k]]

InitSend ==
    /\ LoadingIdle
    /\ MenuIdle /\ DeleteIdle /\ SendIdle /\ RandIdle
    /\ StorageIdle /\ PromptIdle /\ EscIdle /\ MessageIdle
    /\ now = Per + 1
    /\ cd = <<>>
    /\ db = [u \in Users |-> "clean"]
    /\ user_cache = db
    /\ inv = <<>>
    /\ consults = <<>>

\* safe_send up to its first await: the first match is replaced, and the
\* content is bound for the channel, or for the paste service when it is
\* longer than 2000.  An empty content is sent as it is.
safe_send(content) ==
    /\ ss.pc = "idle"
    /\ LET c == replace(content, search(content))
       IN  ss' = [ss EXCEPT !.pc = "sending", !.content = content,
                            !.via = IF content # <<>> /\ ContentLen(c) > 2000
                                    THEN "paste" ELSE "channel"]
    /\ UNCHANGED <<menu, dl, rd>>
    /\ UNCHANGED dvars
    /\ UNCHANGED lvars
    /\ UNCHANGED <<svars, pvars, evars, mvars>>

\* `await self.send(content)`, or the POST to the paste service.
deliver ==
    /\ ss.pc = "sending"
    /\ ss' = [ss EXCEPT !.pc = IF ss.via = "paste" THEN "posted" ELSE "done",
                        !.out = replace(ss.content, search(ss.content))]
    /\ UNCHANGED <<menu, dl, rd>>
    /\ UNCHANGED dvars
    /\ UNCHANGED lvars
    /\ UNCHANGED <<svars, pvars, evars, mvars>>

\* The reply of the paste service: the link is sent to the channel.
paste_reply ==
    /\ ss.pc = "posted"
    /\ ss' = [ss EXCEPT !.pc = "done"]
    /\ UNCHANGED <<menu, dl, rd>>
    /\ UNCHANGED dvars
    /\ UNCHANGED lvars
    /\ UNCHANGED <<svars, pvars, evars, mvars>>

NextSend ==
    \/ \E c \in Contents : safe_send(c)
    \/ deliver
    \/ paste_reply

SpecSend == InitSend /\ [][NextSend]_vars

(***************************************************************************)
(* Api.rand and Api.bypass, with get_sub and filter_posts.  A post is the  *)
(* part of its JSON object that the filters read: over_18 is "true",       *)
(* "false" or "none" (the key is missing), is_video is "true" or "false",  *)
(* gif is "no_preview" when preview.reddit_video_preview is missing, else  *)
(* the value of its is_gif.  The channel is a guild channel ("text", or    *)
(* "nsfw" when marked NSFW) or a direct-message channel, which has no nsfw *)
(* attribute.                                                              *)
(***************************************************************************)
MaxPosts == 2

Sorts == {"top", "new", "rising", "hot", "controversial", "best"}
SortInputs == {"top", "hot", "bogus"}
Channels == {"text", "nsfw", "dm"}
Posts == [over_18 : {"true", "false", "none"}, is_video : {"true", "false"},
          gif : {"no_preview", "true", "false"}]
\* The listings of at most n posts.
RECURSIVE ListingsOf(_)
ListingsOf(n) ==
    IF n = 0 THEN {{}}
    ELSE {{}} \cup {l \cup {p} : l \in ListingsOf(n - 1), p \in Posts}

Listings == ListingsOf(MaxPosts)

\* Mutant: the over_18 filter keeps every post.
over_18_filter_off(p) == TRUE

\* `p.get('over_18') is False`.
over_18_filter(p) == p.over_18 = "false"

\* filter_posts.
filter_posts(obj) ==
    /\ obj.gif # "no_preview" => obj.gif = "false"
    /\ obj.is_video = "false"

InitRand ==
    /\ LoadingIdle
    /\ MenuIdle /\ DeleteIdle /\ SendIdle /\ RandIdle
    /\ StorageIdle /\ PromptIdle /\ EscIdle /\ MessageIdle
    /\ now = Per + 1
    /\ cd = <<>>
    /\ db = [u \in Users |-> "clean"]
    /\ user_cache = db
    /\ inv = <<>>
    /\ consults = <<>>

\* The command up to the outbound request: the is_owner check of bypass,
\* the safe argument, and the test of the sort in get_sub.
rand(author, cmd, channel, sort) ==
    /\ rd.pc = "idle"
    /\ LET r == [rd EXCEPT !.cmd = cmd, !.author = author, !.channel = channel,
                           !.sort = sort]
       IN  rd' = IF ~CheckPasses([c |-> cmd, t |-> NoUser], author)
                 THEN [r EXCEPT !.pc = "done", !.err = "CheckFailure"]
                 ELSE IF cmd = "rand" /\ channel = "dm"
                 THEN [r EXCEPT !.pc = "done", !.err = "AttributeError"]
                 ELSE IF sort \notin Sorts
                 THEN [r EXCEPT !.pc = "done", !.err = "SortError",
                                !.safe = cmd = "rand" /\ channel # "nsfw"]
                 ELSE [r EXCEPT !.pc = "request", !.requests = @ + 1,
                                !.safe = cmd = "rand" /\ channel # "nsfw"]
    /\ UNCHANGED <<menu, dl, ss>>
    /\ UNCHANGED dvars
    /\ UNCHANGED lvars
    /\ UNCHANGED <<svars, pvars, evars, mvars>>

\* get_sub after the response: the status, the over_18 filter when safe,
\* filter_posts, and the IndexError of random.choice on an empty list.
response(status, listing) ==
    /\ rd.pc = "request"
    /\ status # 200 => listing = {}
    /\ LET l == IF rd.safe THEN {p \in listing : over_18_filter(p)} ELSE listing
           c == {p \in l : filter_posts(p)}
       IN  rd' = IF status = 404
                 THEN [rd EXCEPT !.pc = "done", !.status = status, !.err = "SubredditNotFound"]
                 ELSE IF status = 403
                 THEN [rd EXCEPT !.pc = "done", !.status = status, !.err = "ApiError"]
                 ELSE IF c = {}
                 THEN [rd EXCEPT !.pc = "done", !.status = status, !.listing = listing,
                                 !.err = "No SFW posts found"]
                 ELSE [rd EXCEPT !.pc = "choice", !.status = status, !.listing = listing,
                                 !.candidates = c]
    /\ UNCHANGED <<menu, dl, ss>>
    /\ UNCHANGED dvars
    /\ UNCHANGED lvars
    /\ UNCHANGED <<svars, pvars, evars, mvars>>

\* random.choice, and the embed of the post is sent.
choice(post) ==
    /\ rd.pc = "choice"
    /\ post \in rd.candidates
    /\ rd' = [rd EXCEPT !.pc = "done", !.post = post]
    /\ UNCHANGED <<menu, dl, ss>>
    /\ UNCHANGED dvars
    /\ UNCHANGED lvars
    /\ UNCHANGED <<svars, pvars, evars, mvars>>

NextRand ==
    \/ \E a \in Users, c \in {"rand", "bypass"}, ch \in Channels, so \in SortInputs :
           rand(a, c, ch, so)
    \/ \E st \in {200, 403, 404}, l \in Listings : response(st, l)
    \/ \E p \in Posts : choice(p)

SpecRand == InitRand /\ [][NextRand]_vars

(***************************************************************************)
(* Dev.reboot: the confirmation prompt, then NeoBot.close when the prompt  *)
(* returned True.  Dev.cog_check admits owners only.                       *)
(***************************************************************************)
InitReboot ==
    /\ LoadingIdle
    /\ MenuIdle /\ DeleteIdle /\ SendIdle /\ RandIdle
    /\ StorageIdle /\ PromptIdle /\ EscIdle /\ MessageIdle
    /\ now = Per + 1
    /\ cd = <<>>
    /\ db = [u \in Users |-> "clean"]
    /\ user_cache = db
    /\ inv = <<>>
    /\ consults = <<>>

\* reboot up to the first await of its prompt.
reboot(author) ==
    /\ CheckPasses([c |-> "reboot", t |-> NoUser], author)
    /\ prompt(author)

\* `if response: await self.bot.close()`.
reboot_close ==
    /\ pr.pc = "returned"
    /\ pr' = [pr EXCEPT !.pc = "finished"]
    /\ closed' = (closed \/ TRUE \in pr.result)
    /\ UNCHANGED payloads
    /\ UNCHANGED <<guild_cache, message, prefix, rctx>>
    /\ UNCHANGED dvars
    /\ UNCHANGED lvars
    /\ UNCHANGED <<svars, evars>>
    /\ UNCHANGED uvars

NextReboot ==
    \/ \E a \in Users : reboot(a)
    \/ \E res \in {"ok", "forbidden"} : prompt_add_reaction(res)
    \/ \E p \in Payloads : raw_reaction_add(p)
    \/ prompt_edit
    \/ reboot_close

SpecReboot == InitReboot /\ [][NextReboot]_vars

(***************************************************************************)
(* Properties of the admission pipeline.                                   *)
(***************************************************************************)
Has(tr, stage) == \E k \in 1..Len(tr) : tr[k] = stage

ConsultsOf(i) == {k \in 1..Len(consults) : consults[k].inv = i}

KeyLog(u) == SelectSeq(consults, LAMBDA c : c.key = u)

Passes(s, p, q) == Cardinality({k \in p..q : s[k].pass})

\* Three consecutive attempts of one invoker, the first on a full bucket,
\* within a span shorter than 1.25 time-units (half the window).
BurstAt(s, p) ==
    /\ p + 2 <= Len(s)
    /\ s[p].pre = Rate
    /\ 2 * (s[p + 2].at - s[p].at) < Per

\* C1: of three attempts of one invoker within a span shorter than 1.25
\* time-units, starting from a full bucket, the first two pass the
\* rate-limit stage and the third is denied with CommandOnCooldown and a
\* positive retry-after.
C1_ThirdAttemptDenied ==
    \A u \in Users :
        LET s == KeyLog(u)
        IN  \A p \in 1..Len(s) :
                BurstAt(s, p) =>
                    /\ s[p].pass /\ s[p + 1].pass /\ ~s[p + 2].pass
                    /\ Passes(s, p, p + 2) = Rate
                    /\ \A r \in s[p + 2].retry : r > 0
                    /\ s[p + 2].retry # {}
                    /\ inv[s[p + 2].inv].err = "CommandOnCooldown"
                    /\ inv[s[p].inv].err = "none" /\ inv[s[p + 1].inv].err = "none"

C1_Witness ==
    \E u \in Users :
        LET s == KeyLog(u)
        IN  \E p \in 1..Len(s) :
                /\ BurstAt(s, p)
                /\ s[p + 2].at > s[p].at
                /\ inv[s[p + 2].inv].err = "CommandOnCooldown"

\* The order in which the admission stages of an invocation were evaluated.
InOrder(tr) ==
    /\ Has(tr, "blacklist") => Len(tr) >= 2 /\ tr[1] = "ratelimit" /\ tr[2] = "blacklist"
    /\ Has(tr, "checks") => Len(tr) >= 3 /\ tr[2] = "blacklist" /\ tr[3] = "checks"
    /\ Has(tr, "body") => Has(tr, "checks")

\* C2: the stages run in the order rate limit, blacklist, per-command
\* checks, and the first denial stops everything after it: after a
\* rate-limit denial neither check_blacklist nor a per-command check is
\* evaluated and the body does not run; after a blacklist denial no
\* per-command check is evaluated and the body does not run.
C2_ShortCircuit ==
    \A i \in Idx :
        LET r == inv[i]
        IN  /\ r.mode = "invoke" => InOrder(r.trace)
            /\ r.err = "CommandOnCooldown" =>
                   /\ ~Has(r.trace, "blacklist") /\ r.seen = "unread"
                   /\ ~Has(r.trace, "checks") /\ ~Has(r.trace, "body")
                   /\ r.pc = "done"
            /\ r.err = "Blacklisted" =>
                   /\ ~Has(r.trace, "checks") /\ ~Has(r.trace, "body")
                   /\ r.pc = "done"

C2_Witness ==
    /\ \E i \in Idx : inv[i].err = "CommandOnCooldown"
    /\ \E i \in Idx : inv[i].err = "Blacklisted"

\* C3 as claimed: every attempted invocation has consulted the bucket
\* exactly once when it ends, re-dispatched invocations included.
C3_EveryInvocationConsultsOnce ==
    \A i \in Idx : inv[i].pc = "done" => Cardinality(ConsultsOf(i)) = 1

\* C3, amended: an invocation dispatched through Bot.invoke (a message,
\* sudo with a target, sudo in) consults the bucket of its author exactly
\* once, whatever the later stages decide; an invocation started through
\* reinvoke (sudo without a target, debug) never consults a bucket.
C3_ConsultedOncePerInvoke ==
    \A i \in Idx :
        LET r == inv[i]
        IN  /\ (r.mode = "invoke" /\ r.pc # "ratelimit") =>
                   /\ Cardinality(ConsultsOf(i)) = 1
                   /\ \A k \in ConsultsOf(i) : consults[k].key = r.author
            /\ (r.mode = "invoke" /\ r.pc = "ratelimit") => ConsultsOf(i) = {}
            /\ r.mode = "reinvoke" => ConsultsOf(i) = {}

C3_Witness ==
    /\ \E i \in Idx : /\ inv[i].mode = "invoke" /\ inv[i].parent # 0
                      /\ inv[i].err \in {"Blacklisted", "CheckFailure"}
                      /\ Cardinality(ConsultsOf(i)) = 1

\* C4: an invocation whose invoker's cached profile is flagged blacklisted
\* is denied with Blacklisted at the blacklist stage and its body never
\* runs; an invoker with no cached profile, or with the flag not set, passes
\* the stage.
C4_BlacklistStage ==
    \A i \in Idx :
        LET r == inv[i]
        IN  /\ Has(r.trace, "blacklist") =>
                   /\ r.seen = "black" <=> r.err = "Blacklisted"
                   /\ r.seen \in {"absent", "clean"} =>
                          r.pc # "done" \/ Has(r.trace, "checks")
            /\ user_cache[r.author] = "black" => ~Has(r.trace, "body")

C4_Witness ==
    /\ \E i \in Idx : inv[i].seen = "black" /\ inv[i].err = "Blacklisted"
    /\ \E i \in Idx : inv[i].seen = "clean" /\ Has(inv[i].trace, "body")

ExitDone == ld.pc \in {"after", "returned", "raised", "reported"}
HandlerDone == ld.pc \in {"returned", "reported"}

\* The working marker was attached on entry.
Attached == Len(calls) >= 1 /\ calls[1].res = "ok"

\* The platform accepted every marker request made on exit.
ExitAccepted == \A k \in 2..Len(calls) : calls[k].res = "ok"

BodyRaisedIgnorable == ld.exc # "none" /\ ld.exc_ignore # {} /\ ld.exc \in ld.exc_ignore
BodyRaisedOther == ld.exc # "none" /\ ~(ld.exc_ignore # {} /\ ld.exc \in ld.exc_ignore)

\* C7 as claimed: when the platform refuses the working marker on entry,
\* the block makes no further marker request and no marker request fails
\* the invocation.
C7_DeniedEntryIsNoOp ==
    (Len(calls) >= 1 /\ calls[1].res # "ok") =>
        /\ Len(calls) = 1
        /\ ld.escaped # "HTTPException"

\* C8: when the body completes without exception and the working marker
\* was attached, on exit the working marker is removed and then the success
\* marker is attached, unless tick is off, in which case the marker is only
\* removed.
C8_SuccessExit ==
    (ExitDone /\ ld.exc = "none" /\ Attached) =>
        /\ Len(calls) >= 2 /\ calls[2].op = "remove" /\ calls[2].emoji = "loading"
        /\ calls[2].res = "ok" =>
               /\ ld.tick => Len(calls) = 3 /\ calls[3] = Call("add", "tick", calls[3].res)
               /\ ~ld.tick => Len(calls) = 2
        /\ ExitAccepted =>
               /\ ld.markers = IF ld.tick THEN {"tick"} ELSE {}
               /\ ld.escaped = "none" /\ events = <<>>

C8_Witness ==
    /\ ExitDone /\ ld.exc = "none" /\ Attached /\ ld.tick
    /\ Len(calls) = 3 /\ ld.markers = {"tick"}

\* C9: when the body raises an exception that does not match the
\* ignorable list, on exit the working marker is removed and the exception
\* reaches the Error Reporter in one command_error event.
C9_FailureForwarded ==
    (HandlerDone /\ BodyRaisedOther /\ ExitAccepted) =>
        /\ Len(calls) >= 2 /\ calls[2] = Call("remove", "loading", "ok")
        /\ "loading" \notin ld.markers
        /\ events = <<[exc |-> ld.exc, via |-> IF ld.prop THEN "dispatch" ELSE "invoke"]>>

C9_Witness ==
    /\ HandlerDone /\ BodyRaisedOther /\ Attached /\ ExitAccepted
    /\ ld.exc_ignore # {} /\ ld.prop
    /\ events = <<[exc |-> ld.exc, via |-> "dispatch"]>>

\* C10 as claimed: when the body raises an ignorable exception, on exit
\* the working marker is replaced by the success marker and the exception
\* is swallowed.
C10_IgnoredGetsSuccessMarker ==
    (ExitDone /\ BodyRaisedIgnorable /\ Attached /\ ExitAccepted) =>
        /\ ld.markers = {"tick"}
        /\ events = <<>> /\ ld.escaped = "none"

\* C10, amended: when the body raises an ignorable exception and the
\* working marker was attached, on exit the working marker is removed and,
\* unless tick is off, replaced by the success marker; the exception is
\* swallowed: no command_error event, nothing raised out of the block.
C10_IgnoredSwallowed ==
    (ExitDone /\ BodyRaisedIgnorable /\ Attached /\ ExitAccepted) =>
        /\ calls[2] = Call("remove", "loading", "ok")
        /\ ld.markers = IF ld.tick THEN {"tick"} ELSE {}
        /\ Len(calls) = IF ld.tick THEN 3 ELSE 2
        /\ events = <<>> /\ ld.escaped = "none"
        /\ ld.pc \in {"after", "returned"}

C10_Witness ==
    /\ ld.pc = "returned" /\ BodyRaisedIgnorable /\ Attached /\ ExitAccepted
    /\ ld.prop /\ ld.markers = {"tick"} /\ events = <<>>

(***************************************************************************)
(* Properties of the confirmation prompt.                                  *)
(***************************************************************************)
Resumed == {k \in 1..Len(payloads) : payloads[k].resumed}

\* The payload is an accept or reject marker of the invoker on the prompt
\* message.
InvokerAnswer(p) ==
    /\ p.user_id = pr.author
    /\ p.emoji \in {"check_button", "x_button"}
    /\ p.message_id = "prompt"

\* C11: while the prompt waits, a marker added by another user, a marker
\* other than accept/reject, or a marker on another message leaves the
\* prompt waiting; the first accept or reject marker of the invoker on the
\* prompt message ends the wait, the prompt returns true for accept and
\* false for reject, and the prompt message is edited exactly once.
C11_PromptResolution ==
    /\ \A k \in 1..Len(payloads) :
           /\ payloads[k].waiting => (payloads[k].resumed <=> InvokerAnswer(payloads[k].p))
           /\ ~payloads[k].waiting => ~payloads[k].resumed
    /\ Cardinality(Resumed) <= 1
    /\ pr.pc \in {"edit", "returned"} <=> Resumed # {}
    /\ \A k \in Resumed : pr.picked = payloads[k].p
    /\ pr.pc = "returned" =>
           /\ pr.edits = 1
           /\ pr.result = {pr.picked.emoji = "check_button"}
           /\ pr.content = IF pr.picked.emoji = "check_button" THEN "Confirmed!" ELSE "Cancelled!"
    /\ pr.pc # "returned" => pr.edits = 0 /\ pr.result = {}

C11_Witness ==
    /\ pr.pc = "returned" /\ Len(payloads) = 2
    /\ payloads[1].waiting /\ ~payloads[1].resumed
    /\ payloads[1].p.user_id \in Users \ {pr.author}
    /\ payloads[1].p.emoji = "check_button" /\ payloads[1].p.message_id = "prompt"
    /\ payloads[2].resumed /\ pr.result = {FALSE} /\ pr.edits = 1

\* C12 as claimed: a prompt that waits eventually returns, whether or not
\* the invoker ever answers.
C12_PromptEventuallyReturns == (pr.pc = "waiting") ~> (pr.pc = "returned")

\* C19 as claimed: a refused marker request never fails the invocation;
\* here, no exception leaves the prompt.
C19_RefusedMarkerNeverFails == pr.pc # "raised" /\ pr.escaped = "none"

(***************************************************************************)
(* Properties of preference storage and its cache.                         *)
(***************************************************************************)
\* C18 as claimed: every write to user_data is followed by a refresh of
\* the cache, so that when no invocation is in progress the cache equals
\* storage.
C18_CacheEqualsStorageAtRest ==
    (\A i \in Idx : inv[i].pc = "done") =>
        /\ user_cache = db
        /\ cached_reddit = default_reddit

(***************************************************************************)
(* Properties of the error-detail escalation.                              *)
(***************************************************************************)
MayEscalate(k) == {EscAuthor[k]} \cup owner_ids

\* C13 as claimed: when the invoker or an owner reacts to the triggering
\* message within the 30 time-units, the call sends the error detail.
C13_AnswerWithinWindowIsSent ==
    \A k \in Escs :
        (esc[k].pc = "done" /\ esc[k].by # NoReaction /\ esc[k].at < EscTimeout) =>
            esc[k].sent = 1

\* C14: with markers enabled, the error detail of invocation k is sent at
\* most once and only after the invoker of k or an owner has added the
\* warning marker to message k; an event from any other user, or on
\* another message, leaves the call waiting.
C14_DisclosureOnlyToInvokerOrOwner ==
    /\ \A k \in Escs :
           (esc[k].do_emojis /\ (esc[k].sent > 0 \/ esc[k].pc = "resumed")) =>
               /\ esc[k].by.message = k
               /\ esc[k].by.user \in MayEscalate(k)
               /\ esc[k].sent > 0 => esc[k].by.emoji = "warning_button"
               /\ esc[k].sent <= 1
    /\ \A k \in reactions.waiting :
           (reactions.ev.message # k \/ reactions.ev.user \notin MayEscalate(k)) =>
               /\ k \notin reactions.ended
               /\ esc[k].by # reactions.ev

C14_Witness ==
    /\ reactions.waiting = Escs
    /\ reactions.ev = [message |-> 2, user |-> "owner", emoji |-> "warning_button"]
    /\ reactions.ended = {2}
    /\ esc[2].sent = 1
    /\ esc[1].pc = "waiting" /\ esc[1].sent = 0

(***************************************************************************)
(* Properties of prefix resolution and command resolution.                 *)
(***************************************************************************)
HasEntry == message.guild # "dm" /\ message.guild \in DOMAIN guild_cache
HasOverride == HasEntry /\ guild_cache[message.guild].has
Override == guild_cache[message.guild].prefixes

\* C15: on a running bot get_prefix yields the default prefix "n/" (next
\* to the mention prefixes) for a direct message, for a guild without a
\* row in the guild cache, and for a guild whose row has no prefixes.
C15_DefaultPrefix ==
    /\ (prefix.pc = "set" /\ ~HasOverride) =>
           /\ prefix.valid \ Mentions = {"n/"}
           /\ rctx.pc \in {"found", "notfound", "resolved"} <=>
                  (rctx.pc # "unset" /\ message.used \in {"n/"} \cup Mentions)
    /\ (~closed /\ prefix.pc # "unset") => prefix.pc = "set"

C15_Witness ==
    /\ HasEntry /\ ~HasOverride
    /\ prefix.pc = "set" /\ prefix.valid \ Mentions = {"n/"}
    /\ message.used = "n/" /\ rctx.pc = "resolved"

\* C16 as claimed: for a guild whose row has an empty prefixes list the
\* default prefix "n/" is valid.
C16_EmptyOverrideFallsBack ==
    (prefix.pc = "set" /\ HasOverride /\ Override = {}) => "n/" \in prefix.valid

\* C17 as claimed: for a guild whose row has a non-empty prefixes list the
\* valid prefixes are the default plus the override.
C17_DefaultPlusOverride ==
    (prefix.pc = "set" /\ HasOverride /\ Override # {}) =>
        /\ "n/" \in prefix.valid
        /\ Override \subseteq prefix.valid

\* C17, amended: for a guild whose row has a non-empty prefixes list the
\* valid textual prefixes are exactly that list; "n/" is valid only when
\* the list contains it, and otherwise a message that uses "n/" matches no
\* command.
C17_OverrideReplacesDefault ==
    (prefix.pc = "set" /\ HasOverride /\ Override # {}) =>
        /\ prefix.valid \ Mentions = Override
        /\ "n/" \in prefix.valid <=> "n/" \in Override
        /\ (message.used = "n/" /\ "n/" \notin Override) =>
               rctx.pc \in {"unset", "nomatch"}
        /\ (message.used \in Override /\ rctx.pc # "unset") =>
               rctx.pc \in {"found", "notfound", "resolved"}

C17_Witness ==
    /\ prefix.pc = "set" /\ HasOverride /\ Override = {"!"}
    /\ message.used = "n/" /\ rctx.pc = "nomatch"

\* The command that the words of the message name when letter case is
\* ignored at every level.
Named(path) ==
    LET top == ci_get(BotCommands, path[1])
    IN  IF Len(path) = 1 \/ top = "none" THEN top
        ELSE ci_get(GroupCommands(top), path[2])

\* C20 as claimed: a message made of a valid prefix, the names or aliases
\* of the path to a registered command in any letter case, and an argument
\* string resolves to that command with that argument string.
C20_AnyCaseResolves ==
    (rctx.pc = "resolved" /\ Named(message.path) # "none") =>
        /\ rctx.command = Named(message.path)
        /\ rctx.left = <<>>
        /\ rctx.rest = message.rest

(***************************************************************************)
(* Properties of the pagination session and of dev delete.                 *)
(***************************************************************************)
\* C21: in a session started by quick_menu the current index stays within
\* 0 .. page_count - 1 whatever the inputs; "next" on the last page and
\* "previous" on the first page leave it unchanged.
C21_IndexClamped ==
    menu.pc # "idle" =>
        /\ menu.current_page >= 0
        /\ menu.current_page <= menu.max_pages - 1
        /\ (menu.input.kind = "next" /\ menu.before = menu.max_pages - 1) =>
               menu.current_page = menu.before
        /\ (menu.input.kind = "previous" /\ menu.before = 0) =>
               menu.current_page = 0

C21_Witness ==
    /\ menu.pc = "open" /\ menu.max_pages = 2
    /\ menu.input.kind = "next" /\ menu.before = 1 /\ menu.current_page = 1

\* C24 as claimed: dev delete deletes only messages written by the bot
\* itself, and stops with "I can only delete my own messages" at a message
\* written by anyone else.
C24_DeletesOnlyOwnMessages ==
    /\ \A m \in dl.deleted : MessageAuthor[m] = "neo"
    /\ \A m \in DOMAIN MessageAuthor :
           (dl.pc = "raised" /\ dl.ids # <<>> /\ Head(dl.ids) = m
            /\ m \notin dl.deleted /\ MessageAuthor[m] # "neo") =>
               dl.err = "I can only delete my own messages"

(***************************************************************************)
(* Properties of the before-invoke hook, of sudo and of the loading block. *)
(***************************************************************************)
\* C22 as claimed: whenever a handler body starts executing for an
\* invoker, the user cache holds an entry for that invoker, also when two
\* invocations of that invoker are in flight.
C22_CacheHoldsInvokerAtBody ==
    \A i \in Idx :
        (inv[i].pc = "body" /\ inv[i].mode = "invoke") =>
            user_cache[inv[i].author] # "absent"

\* The invocations that sudo creates, and the target sudo was given.
SudoChild(i) == inv[i].parent # 0 /\ Head(inv[inv[i].parent].line).c = "sudo"
Target(i) == Head(inv[inv[i].parent].line).t

\* C23: sudo with a target invokes the command as the target through the
\* whole pipeline (the target's bucket is consulted, the target's blacklist
\* entry and the command's checks decide); sudo without a target reinvokes
\* the command as the invoker of sudo, with no check at all.
C23_SudoTargetFullPipeline ==
    \A i \in Idx :
        SudoChild(i) =>
            IF Target(i) # NoUser
            THEN /\ inv[i].author = Target(i)
                 /\ inv[i].mode = "invoke"
                 /\ \A k \in ConsultsOf(i) : consults[k].key = Target(i)
                 /\ Has(inv[i].trace, "body") =>
                        /\ \E k \in ConsultsOf(i) : consults[k].pass
                        /\ ~Blacklisted(inv[i].seen)
                        /\ CheckPasses(Head(inv[i].line), Target(i))
                 /\ inv[i].pc = "done" =>
                        /\ Has(inv[i].trace, "ratelimit")
                        /\ (\A k \in ConsultsOf(i) : ~consults[k].pass) =>
                               inv[i].err = "CommandOnCooldown"
            ELSE /\ inv[i].author = inv[inv[i].parent].author
                 /\ inv[i].mode = "reinvoke"
                 /\ ConsultsOf(i) = {}
                 /\ ~Has(inv[i].trace, "ratelimit")
                 /\ ~Has(inv[i].trace, "blacklist")
                 /\ ~Has(inv[i].trace, "checks")
                 /\ (inv[i].pc = "done" /\ BindOk(inv[i])) =>
                        Has(inv[i].trace, "body")

C23_Witness ==
    \E i \in Idx :
        /\ SudoChild(i) /\ Target(i) = "ann"
        /\ inv[i].pc = "done" /\ inv[i].err = "CommandOnCooldown"

\* C27 as claimed: for every combination of prop, tick and exc_ignore, a
\* body that failed with a non-ignorable exception never results in a
\* success marker on the triggering message.
C27_NoSuccessMarkerAfterFailure ==
    BodyRaisedOther => "tick" \notin ld.markers

\* C28 as claimed: a failure raised inside the block ends the invocation:
\* no statement of the handler placed after the block runs, and the Error
\* Reporter receives exactly one error for the invocation.
C28_FailureEndsInvocation ==
    BodyRaisedOther =>
        /\ ld.pc \notin {"returned", "unbound", "failed"}
        /\ ld.pc = "reported" => Len(events) = 1

(***************************************************************************)
(* Further properties of the error-detail escalation.                      *)
(***************************************************************************)
\* C25 as claimed: a reaction of the invoker or an owner with a marker
\* other than the warning marker does not end the wait.
C25_OtherMarkerIgnored ==
    \A k \in reactions.waiting :
        (/\ reactions.ev.message = k
         /\ reactions.ev.user \in MayEscalate(k)
         /\ reactions.ev.emoji # "warning_button") =>
            k \notin reactions.ended

\* C26 as claimed: whenever an escalation finishes without sending the
\* error detail, the warning marker has been removed from the triggering
\* message.
C26_MarkerReleased ==
    \A k \in Escs :
        (esc[k].pc = "done" /\ esc[k].do_emojis /\ esc[k].sent = 0) =>
            "warning_button" \notin esc[k].markers

(***************************************************************************)
(* Whose bucket an invocation uses.                                        *)
(***************************************************************************)
\* The invocation created by the message that led to invocation i.
RECURSIVE Root(_)
Root(i) == IF inv[i].parent = 0 THEN i ELSE Root(inv[i].parent)

\* C29 as claimed: the bucket of a user u is used only while processing a
\* message that u sent; no command of another user, sudo with target u
\* included, consumes u's budget or is denied by u's cooldown.
C29_BucketOnlyForOwnMessages ==
    \A k \in 1..Len(consults) :
        consults[k].key = inv[Root(consults[k].inv)].author

\* C29, amended: the bucket of a user u is used only while processing an
\* invocation whose author is u: a message that u sent, or a command that
\* an owner runs as u through sudo with target u, which consumes u's
\* budget and can be denied by u's cooldown.
C29_BucketFollowsInvocationAuthor ==
    \A k \in 1..Len(consults) :
        LET i == consults[k].inv
        IN  /\ consults[k].key = inv[i].author
            /\ inv[i].mode = "invoke"
            /\ inv[i].parent # 0 =>
                   LET p == inv[inv[i].parent]
                   IN  /\ p.author \in owner_ids
                       /\ IF Head(p.line).c = "sudo"
                          THEN Head(p.line).t # NoUser /\ consults[k].key = Head(p.line).t
                          ELSE Head(p.line).c = "sudo_in" /\ consults[k].key = p.author

C29_Witness ==
    \E k \in 1..Len(consults) :
        /\ consults[k].key = "ann" /\ ~consults[k].pass
        /\ inv[consults[k].inv].parent # 0
        /\ inv[Root(consults[k].inv)].author = "owner"

(***************************************************************************)
(* Properties of the Dev extension.                                        *)
(***************************************************************************)
DevExtension == DevCmds \cup DevLeafCmds \cup DevReinvokeCmds

\* C30: no handler body of the Dev extension runs for an invocation whose
\* author is not an owner, the nested invocations created through copy_ctx
\* by sudo, sudo in, debug and dev journalctl included.
C30_DevBodyOnlyForOwners ==
    \A i \in Idx :
        (Head(inv[i].line).c \in DevExtension /\ Has(inv[i].trace, "body")) =>
            inv[i].author \in owner_ids

C30_Witness ==
    \E i \in Idx :
        /\ SudoChild(i) /\ Target(i) = "ann"
        /\ Head(inv[i].line).c = "shell"
        /\ inv[i].pc = "done" /\ inv[i].err = "CheckFailure"
        /\ ~Has(inv[i].trace, "body")

(***************************************************************************)
(* Concurrent before-invoke hooks.                                         *)
(***************************************************************************)
\* C31: when invocations of one user without a profile are processed
\* concurrently, under every interleaving of their hooks no invocation
\* fails because of the duplicate INSERT, the user has a row in storage
\* once a hook of theirs is over, and every handler body runs.
C31_ConcurrentHooksBothRun ==
    \A i \in Idx :
        /\ inv[i].err \in {"none", "CommandOnCooldown"}
        /\ (Has(inv[i].trace, "hook") /\ inv[i].pc \notin {"insert", "refresh"}) =>
               db[inv[i].author] = "clean"
        /\ inv[i].pc = "refresh" => db[inv[i].author] = "clean"
        /\ (inv[i].pc = "done" /\ inv[i].err = "none") => Has(inv[i].trace, "body")
        /\ \A j \in Idx :
               (j # i /\ inv[j].author = inv[i].author) =>
                   ~(inv[i].pc = "refresh" /\ inv[j].pc = "refresh")

C31_Witness ==
    \E i, j \in Idx :
        /\ i # j /\ inv[i].author = "ann" /\ inv[j].author = "ann"
        /\ inv[i].pc = "refresh"
        /\ inv[j].seen = "absent" /\ user_cache["ann"] = "absent"
        /\ inv[j].pc = "done" /\ inv[j].err = "none" /\ Has(inv[j].trace, "body")

(***************************************************************************)
(* Properties of safe_send.                                                *)
(***************************************************************************)
\* C32 as claimed: whatever safe_send sends to the channel or uploads to
\* the paste service contains no piece that matches the token pattern,
\* also when the content holds several different tokens.
C32_NoTokenDelivered ==
    ss.pc # "idle" => \A k \in 1..Len(ss.out) : ss.out[k] \notin Tokens

(***************************************************************************)
(* Properties of rand.                                                     *)
(***************************************************************************)
\* A post that rand may return in a channel not marked NSFW.
Sfw(p) == p.over_18 # "true" /\ p.is_video # "true" /\ p.gif # "true"

C34_CloseOnlyAfterInvokerAccepts ==
    /\ closed =>
           /\ pr.pc = "finished" /\ pr.author \in owner_ids
           /\ pr.picked = [user_id |-> pr.author, emoji |-> "check_button",
                           message_id |-> "prompt"]
           /\ \E k \in 1..Len(payloads) :
                  payloads[k].p = pr.picked /\ payloads[k].resumed
    /\ (pr.pc = "finished" /\ pr.picked.emoji # "check_button") => ~closed

C34_Witness ==
    /\ closed
    /\ \E k \in 1..Len(payloads) :
           /\ payloads[k].p = [user_id |-> "ann", emoji |-> "check_button",
                               message_id |-> "prompt"]
           /\ payloads[k].waiting /\ ~payloads[k].resumed

====
